---- MODULE Spec2Model ----
(***************************************************************************)
(* State-machine model of the WHO outbreak pipeline                        *)
(* (who_outbreak_pipeline/pipelines/who_data): clean_who_data,             *)
(* engineer_features, split_by_year, train_model, evaluate_model and       *)
(* predict_future.                                                         *)
(*                                                                         *)
(* Conventions                                                             *)
(*  - a Python string is a sequence of one-character strings;              *)
(*  - a float is held in tenths (78.1 is 781); the inputs enumerated       *)
(*    carry at most one fractional digit;                                  *)
(*  - NaN / NaT / None-after-coercion is the value NaN below; every        *)
(*    comparison on a number tests IsNaN first, as pandas comparisons      *)
(*    with NaN are False;                                                  *)
(*  - a raw cell (a cell of the table read from the indicator source) is   *)
(*    a record [t, v]: t = "str" (v the characters), "num" (v the number), *)
(*    "nan" (float NaN) or "none" (Python None).                           *)
(***************************************************************************)
EXTENDS Integers, Sequences, FiniteSets, TLC

VARIABLES
    pc,                     \* position of the run
    df_raw,                 \* raw batch: [cols: set of column names, rows: Seq]
    who_clean_data,         \* output of clean_who_data
    who_feature_data,       \* output of engineer_features
    train_df, test_df,      \* outputs of split_by_year
    who_model,              \* the fitted forest: a sequence of trees
    who_model_columns,      \* the training schema: a sequence of column names
    infer_df,               \* the table handed to evaluate_model / predict_future
    X_aligned,              \* the matrix passed to model.predict
    who_predictions,        \* df_meta of evaluate_model
    who_future_predictions, \* df_expanded of predict_future
    who_aggregated_data,    \* output of aggregate_who_data
    status,                 \* per node of the pipeline: pending, running, done
    catalog,                \* per dataset: the nodes that have saved it
    loaded                  \* per node: the datasets it loaded, as saved then

vars == <<pc, df_raw, who_clean_data, who_feature_data, train_df, test_df,
          who_model, who_model_columns, infer_df, X_aligned,
          who_predictions, who_future_predictions, who_aggregated_data,
          status, catalog, loaded>>

dagVars == <<status, catalog, loaded>>

----------------------------------------------------------------------------
(* Numbers and strings *)

NaN == 0 - 999999

IsNaN(x) == x = NaN

NotNa(x) == x # NaN

Digits == <<"0", "1", "2", "3", "4", "5", "6", "7", "8", "9">>

IsDigit(c) == \E i \in 1..Len(Digits) : Digits[i] = c

DigitVal(c) == (CHOOSE i \in 1..Len(Digits) : Digits[i] = c) - 1

IsSpace(c) == c = " "

RECURSIVE Pow10(_)
Pow10(n) == IF n <= 0 THEN 1 ELSE 10 * Pow10(n - 1)

\* value of a sequence of digit characters, most significant first
RECURSIVE DigitsToInt(_)
DigitsToInt(s) ==
    IF s = <<>> THEN 0
    ELSE 10 * DigitsToInt(SubSeq(s, 1, Len(s) - 1)) + DigitVal(s[Len(s)])

\* str.strip(): leading and trailing whitespace removed
RECURSIVE LStrip(_)
LStrip(s) == IF s # <<>> /\ IsSpace(Head(s)) THEN LStrip(Tail(s)) ELSE s

RECURSIVE RStrip(_)
RStrip(s) ==
    IF s # <<>> /\ IsSpace(s[Len(s)]) THEN RStrip(SubSeq(s, 1, Len(s) - 1)) ELSE s

Strip(s) == RStrip(LStrip(s))

----------------------------------------------------------------------------
(* Raw cells *)

StrCell(s) == [t |-> "str", v |-> s]
NumCell(n) == [t |-> "num", v |-> <<n>>]
NanCell == [t |-> "nan", v |-> <<>>]
NoneCell == [t |-> "none", v |-> <<>>]

\* pd.isna on one cell
CellIsNa(c) == c.t \in {"nan", "none"}

----------------------------------------------------------------------------
(* nodes_clean.py helpers *)

\* _safe_str: str(x); str(float('nan')) is "nan", str(None) is "None".
\* The string columns of the source hold strings or missing values only.
_safe_str(c) ==
    CASE c.t = "str" -> c.v
      [] c.t = "nan" -> <<"n", "a", "n">>
      [] c.t = "none" -> <<"N", "o", "n", "e">>

\* number of consecutive digit characters of s from position p on
RECURSIVE DigitRun(_, _)
DigitRun(s, p) ==
    IF p >= 1 /\ p <= Len(s) /\ IsDigit(s[p]) THEN 1 + DigitRun(s, p + 1) ELSE 0

\* \d*\.?\d+ tried at p with Python's greedy backtracking: the position after
\* the match, 0 when there is none
MantissaEnd(s, p) ==
    LET d1 == DigitRun(s, p)
        q == p + d1
    IN  IF q <= Len(s) /\ s[q] = "." /\ DigitRun(s, q + 1) >= 1
        THEN q + 1 + DigitRun(s, q + 1)
        ELSE IF d1 >= 1 THEN q ELSE 0

\* (?:[eE][-+]?\d+)? tried at e: the position after it (e when it is absent)
ExponentEnd(s, e) ==
    IF e <= Len(s) /\ s[e] \in {"e", "E"}
    THEN LET p2 == IF e + 1 <= Len(s) /\ s[e + 1] \in {"-", "+"} THEN e + 2 ELSE e + 1
         IN  IF DigitRun(s, p2) >= 1 THEN p2 + DigitRun(s, p2) ELSE e
    ELSE e

\* the whole pattern tried at i: the position after the match, 0 when none
MatchEnd(s, i) ==
    LET p == IF s[i] \in {"-", "+"} THEN i + 1 ELSE i
        m == MantissaEnd(s, p)
    IN  IF m = 0 THEN 0 ELSE ExponentEnd(s, m)

\* float(token) for a token the pattern matched, in tenths
TokenToFloat(tok) ==
    LET neg == tok[1] = "-"
        p == IF tok[1] \in {"-", "+"} THEN 2 ELSE 1
        d1 == DigitRun(tok, p)
        hasFrac == p + d1 <= Len(tok) /\ tok[p + d1] = "."
        f1 == IF hasFrac THEN DigitRun(tok, p + d1 + 1) ELSE 0
        m == IF hasFrac THEN p + d1 + 1 + f1 ELSE p + d1
        ipart == DigitsToInt(SubSeq(tok, p, p + d1 - 1))
        fpart == IF f1 >= 1 THEN DigitVal(tok[p + d1 + 1]) ELSE 0
        mant == 10 * ipart + fpart
        hasExp == m <= Len(tok)
        eneg == hasExp /\ tok[m + 1] = "-"
        ep == IF hasExp /\ tok[m + 1] \in {"-", "+"} THEN m + 2 ELSE m + 1
        ex == IF hasExp THEN DigitsToInt(SubSeq(tok, ep, Len(tok))) ELSE 0
        mag == IF eneg THEN mant \div Pow10(ex) ELSE mant * Pow10(ex)
    IN  IF neg THEN 0 - mag ELSE mag

\* re.search: the leftmost position where the pattern matches
RegexSearch(s) ==
    LET hits == {i \in 1..Len(s) : MatchEnd(s, i) # 0}
    IN  IF hits = {} THEN NaN
        ELSE LET i == CHOOSE j \in hits : \A k \in hits : j <= k
             IN  TokenToFloat(SubSeq(s, i, MatchEnd(s, i) - 1))

\* _coerce_num
_coerce_num(c) ==
    CASE CellIsNa(c) -> NaN
      [] c.t = "num" -> c.v[1]
      [] OTHER -> RegexSearch(c.v)

\* int(str): surrounding whitespace and one sign allowed, digits only
StrToInt(s) ==
    LET u == Strip(s)
        p == IF u # <<>> /\ u[1] \in {"-", "+"} THEN 2 ELSE 1
        body == SubSeq(u, p, Len(u))
    IN  IF body # <<>> /\ DigitRun(body, 1) = Len(body)
        THEN (IF u[1] = "-" THEN 0 - DigitsToInt(body) ELSE DigitsToInt(body))
        ELSE NaN

\* _to_int: int(x), NaN on any exception (int(nan), int(None), int("abc"))
_to_int(c) ==
    CASE c.t = "num" -> c.v[1]
      [] c.t = "str" -> StrToInt(c.v)
      [] OTHER -> NaN

\* pd.to_numeric(..., errors="coerce") on one cell of a numeric source column
to_numeric(c) ==
    CASE c.t = "num" -> c.v[1]
      [] c.t = "str" ->
            (IF Strip(c.v) # <<>> /\ MatchEnd(Strip(c.v), 1) = Len(Strip(c.v)) + 1
             THEN TokenToFloat(Strip(c.v)) ELSE NaN)
      [] OTHER -> NaN

----------------------------------------------------------------------------
(* clean_who_data *)

\* The raw columns the cleaner reads. SpatialDimType, TimeDimType, Dim1Type and
\* TimeDimensionValue are projected too but are not in the final schema and
\* take part in no decision, so they are not carried.
RawColumns == {"id", "IndicatorCode", "indicator_code", "SpatialDim",
               "ParentLocationCode", "ParentLocation", "TimeDim", "Dim1",
               "Value", "NumericValue", "Low", "High", "Date"}

\* the cell of column c in raw record r of a batch with columns cols
\* (df.get / "if col in df.columns")
HasCol(cols, c) == c \in cols

\* lines 51-56 and 93-94: indicator_code wins over IndicatorCode; "" when
\* neither column exists; then _safe_str and strip (lines 99-103)
IndicatorOf(cols, r) ==
    IF HasCol(cols, "indicator_code") THEN Strip(_safe_str(r.indicator_code))
    ELSE IF HasCol(cols, "IndicatorCode") THEN Strip(_safe_str(r.IndicatorCode))
    ELSE <<>>

\* lines 99-103: a string column, "" when the column is absent
StringCol(cols, r, c) ==
    IF HasCol(cols, c) THEN Strip(_safe_str(r[c])) ELSE <<>>

\* line 109 (and the reindex of line 144 when TimeDim is absent)
YearOf(cols, r) == IF HasCol(cols, "TimeDim") THEN _to_int(r.TimeDim) ELSE NaN

\* line 114: the batch-level test that selects the numeric column
UseNumeric(batch) ==
    /\ HasCol(batch.cols, "NumericValue")
    /\ \E i \in 1..Len(batch.rows) : ~CellIsNa(batch.rows[i].NumericValue)

\* lines 114-117
ValueOf(batch, r) ==
    IF UseNumeric(batch) THEN to_numeric(r.NumericValue) ELSE _coerce_num(r.Value)

\* line 117 raises KeyError when the batch has no Value column
CleanRaises(batch) == ~UseNumeric(batch) /\ ~HasCol(batch.cols, "Value")

\* lines 119-120
BoundOf(cols, r, c) == IF HasCol(cols, c) THEN to_numeric(r[c]) ELSE NaN

\* line 125: pd.to_datetime(..., errors="coerce"); a date string is written as
\* the digits of its day ordinal, anything else is NaT
to_datetime(c) ==
    IF c.t = "str" /\ c.v # <<>> /\ DigitRun(c.v, 1) = Len(c.v)
    THEN DigitsToInt(c.v) ELSE NaN

DateOf(cols, r) == IF HasCol(cols, "Date") THEN to_datetime(r.Date) ELSE NaN

\* the id column is opaque: numbers pass through
IdOf(cols, r) ==
    IF HasCol(cols, "id") /\ r.id.t = "num" THEN r.id.v[1] ELSE NaN

\* one record in the final schema (expected_cols, lines 139-144)
CleanRow(batch, r) ==
    [id |-> IdOf(batch.cols, r),
     indicator_code |-> IndicatorOf(batch.cols, r),
     region_code |-> StringCol(batch.cols, r, "ParentLocationCode"),
     region |-> StringCol(batch.cols, r, "ParentLocation"),
     country_iso3 |-> StringCol(batch.cols, r, "SpatialDim"),
     year |-> YearOf(batch.cols, r),
     sex |-> StringCol(batch.cols, r, "Dim1"),
     value |-> ValueOf(batch, r),
     low |-> BoundOf(batch.cols, r, "Low"),
     high |-> BoundOf(batch.cols, r, "High"),
     date_reported |-> DateOf(batch.cols, r)]

\* lines 130-134: the three row filters
KeepRow(row) ==
    /\ Len(row.country_iso3) = 3
    /\ row.indicator_code # <<>>
    /\ NotNa(row.value)

\* line 146: DataFrame.drop_duplicates() keeps the first of the rows that are
\* equal in every column
RECURSIVE DropDuplicates(_)
DropDuplicates(rows) ==
    IF rows = <<>> THEN <<>>
    ELSE LET init == SubSeq(rows, 1, Len(rows) - 1)
             last == rows[Len(rows)]
         IN  IF \E j \in 1..Len(init) : init[j] = last
             THEN DropDuplicates(init)
             ELSE Append(DropDuplicates(init), last)

MapRows(batch) == [i \in 1..Len(batch.rows) |-> CleanRow(batch, batch.rows[i])]

clean_who_data(batch) == DropDuplicates(SelectSeq(MapRows(batch), KeepRow))

----------------------------------------------------------------------------
(* engineer_features.                                                      *)
(* A derived fraction (value_roll3, value_pct_change, quality_score) is    *)
(* the pair <<numerator, denominator>> of an exact fraction, <<NaN, 1>>    *)
(* when undefined. A z-score is the record [num, n, var] that stands for   *)
(* num / (sqrt(var) + n * 1e-9), which is (v - mean) / (std + 1e-9) for a  *)
(* group of n values with n * v - sum = num and n * n * variance = var;    *)
(* it is [num |-> NaN, n |-> 0, var |-> 0] when undefined.                 *)

\* characters in code-point order, for Python's string comparison
CharOrder == <<" ", "+", "-", ".", "0", "1", "2", "3", "4", "5", "6", "7", "8",
               "9", "<", "A", "B", "C", "D", "E", "F", "G", "H", "I", "J", "K",
               "L", "M", "N", "O", "P", "Q", "R", "S", "T", "U", "V", "W", "X",
               "Y", "Z", "[", "]", "_", "a", "b", "c", "d", "e", "f", "g", "h",
               "i", "j", "k", "l", "m", "n", "o", "p", "q", "r", "s", "t", "u",
               "v", "w", "x", "y", "z">>

CharRank(c) == CHOOSE i \in 1..Len(CharOrder) : CharOrder[i] = c

RECURSIVE StrLess(_, _)
StrLess(a, b) ==
    IF b = <<>> THEN FALSE
    ELSE IF a = <<>> THEN TRUE
    ELSE IF Head(a) # Head(b) THEN CharRank(Head(a)) < CharRank(Head(b))
    ELSE StrLess(Tail(a), Tail(b))

\* numbers ascending, NaN last (sort_values, na_position="last")
NumLess(x, y) == NotNa(x) /\ (IsNaN(y) \/ x < y)

\* strictly before, by (indicator_code, country_iso3, year): lines 39 and 79
KeyLess(r1, r2) ==
    \/ StrLess(r1.indicator_code, r2.indicator_code)
    \/ /\ r1.indicator_code = r2.indicator_code
       /\ \/ StrLess(r1.country_iso3, r2.country_iso3)
          \/ /\ r1.country_iso3 = r2.country_iso3
             /\ NumLess(r1.year, r2.year)

\* the place of row i after a stable sort: one more than the number of rows
\* that go before it
SortedPlace(rows, i) ==
    1 + Cardinality({j \in 1..Len(rows) :
                        \/ KeyLess(rows[j], rows[i])
                        \/ (~KeyLess(rows[i], rows[j]) /\ j < i)})

\* sort_values([indicator_code, country_iso3, year]): stable, NaN last
SortRows(rows) ==
    [k \in 1..Len(rows) |->
        rows[CHOOSE i \in 1..Len(rows) : SortedPlace(rows, i) = k]]

\* rows is in the order sort_values leaves
IsSorted(rows) == \A i \in 1..(Len(rows) - 1) : ~KeyLess(rows[i + 1], rows[i])

\* CONTINENT_MAP, lines 4-18; <<>> when the code is not a key
CONTINENT_MAP(code) ==
    CASE code \in {<<"A", "F", "R">>, <<"A", "F", "R", "O">>} ->
            <<"A", "f", "r", "i", "c", "a">>
      [] code \in {<<"A", "M", "R">>, <<"A", "M", "R", "O">>} ->
            <<"A", "m", "e", "r", "i", "c", "a", "s">>
      [] code \in {<<"E", "M", "R">>, <<"E", "M", "R", "O">>} ->
            <<"E", "a", "s", "t", "e", "r", "n", " ", "M", "e", "d", "i", "t", "e",
              "r", "r", "a", "n", "e", "a", "n">>
      [] code \in {<<"E", "U", "R">>, <<"E", "U", "R", "O">>} ->
            <<"E", "u", "r", "o", "p", "e">>
      [] code \in {<<"S", "E", "A", "R">>, <<"S", "E", "A", "R", "O">>} ->
            <<"S", "o", "u", "t", "h", "-", "E", "a", "s", "t", " ", "A", "s", "i", "a">>
      [] code \in {<<"W", "P", "R">>, <<"W", "P", "R", "O">>} ->
            <<"W", "e", "s", "t", "e", "r", "n", " ", "P", "a", "c", "i", "f", "i", "c">>
      [] OTHER -> <<>>

\* line 33: the mapped continent, else the raw region string
ContinentOf(row) ==
    IF CONTINENT_MAP(row.region_code) # <<>> THEN CONTINENT_MAP(row.region_code)
    ELSE row.region

\* lines 64-65
CiWidth(row) ==
    IF NotNa(row.low) /\ NotNa(row.high) THEN row.high - row.low ELSE NaN

\* lines 29-33, 64-65: the row with continent, date and ci_width; January 1
\* of year is written as the year
FeatureRow(row) ==
    [id |-> row.id,
     indicator_code |-> row.indicator_code,
     country_iso3 |-> row.country_iso3,
     continent |-> ContinentOf(row),
     region_code |-> row.region_code,
     region |-> row.region,
     year |-> row.year,
     sex |-> row.sex,
     value |-> row.value,
     low |-> row.low,
     high |-> row.high,
     date |-> row.year,
     ci_width |-> CiWidth(row)]

QNaN == <<NaN, 1>>

ZNaN == [num |-> NaN, n |-> 0, var |-> 0]

\* line 36: grp = [indicator_code, country_iso3]
SameGroup(t, i, j) ==
    /\ t[i].indicator_code = t[j].indicator_code
    /\ t[i].country_iso3 = t[j].country_iso3

\* the group taken by indicator_code alone
GroupUpToAnyCountry(t, i) ==
    {j \in 1..i : t[i].indicator_code = t[j].indicator_code}

\* the rows of the group of row i up to row i, in the sorted table t
GroupUpTo(t, i) == {j \in 1..i : SameGroup(t, i, j)}

\* rolling(window=3): row i and the two rows of its group before it
Window(t, i) ==
    {j \in GroupUpTo(t, i) : Cardinality({k \in GroupUpTo(t, i) : k > j}) < 3}

\* the sum of the defined values of the rows of t at the positions in S,
\* taken over the positions 1..k
RECURSIVE SumValues(_, _, _)
SumValues(t, S, k) ==
    IF k = 0 THEN 0
    ELSE SumValues(t, S, k - 1)
         + (IF k \in S /\ NotNa(t[k].value) THEN t[k].value ELSE 0)

RECURSIVE SumSquares(_, _, _)
SumSquares(t, S, k) ==
    IF k = 0 THEN 0
    ELSE SumSquares(t, S, k - 1)
         + (IF k \in S /\ NotNa(t[k].value) THEN t[k].value * t[k].value ELSE 0)

Defined(t, S) == {j \in S : NotNa(t[j].value)}

\* the window over the whole table instead of the group of the row
Roll3AcrossGroups(t, i) ==
    LET w == {j \in 1..i : i - j < 3}
    IN  IF Defined(t, w) = {} THEN QNaN
        ELSE <<SumValues(t, w, Len(t)), Cardinality(Defined(t, w))>>

\* lines 42-45: rolling(window=3, min_periods=1).mean() within the group
Roll3(t, i) ==
    IF Defined(t, Window(t, i)) = {} THEN QNaN
    ELSE <<SumValues(t, Window(t, i), Len(t)),
           Cardinality(Defined(t, Window(t, i)))>>

\* lines 50 and 56: (s - s.mean()) / (s.std(ddof=0) + 1e-9) for row i in the
\* group at the positions G
ZScore(t, i, G) ==
    IF IsNaN(t[i].value) THEN ZNaN
    ELSE [num |-> Cardinality(Defined(t, G)) * t[i].value
                    - SumValues(t, G, Len(t)),
          n |-> Cardinality(Defined(t, G)),
          var |-> Cardinality(Defined(t, G)) * SumSquares(t, G, Len(t))
                    - SumValues(t, G, Len(t)) * SumValues(t, G, Len(t))]

\* line 49: groupby("indicator_code")
IndicatorGroup(t, i) ==
    {j \in 1..Len(t) : t[j].indicator_code = t[i].indicator_code}

\* line 55: groupby(["indicator_code", "year"]); a row without a year is in
\* no group (dropna)
YearGroup(t, i) ==
    {j \in 1..Len(t) : /\ t[j].indicator_code = t[i].indicator_code
                       /\ NotNa(t[j].year)
                       /\ t[j].year = t[i].year}

ZGlobal(t, i) == ZScore(t, i, IndicatorGroup(t, i))

ZYear(t, i) == IF IsNaN(t[i].year) THEN ZNaN ELSE ZScore(t, i, YearGroup(t, i))

\* line 60: groupby(grp)["value"].shift(1), the value of the row before row i
\* in its group
ValuePrev(t, i) ==
    IF GroupUpTo(t, i) = {i} THEN NaN
    ELSE t[CHOOSE j \in GroupUpTo(t, i) \ {i} :
              \A k \in GroupUpTo(t, i) \ {i} : k <= j].value

\* line 61: (value - value_prev) / value_prev.replace(0, nan) * 100
PctChange(t, i) ==
    IF IsNaN(t[i].value) \/ IsNaN(ValuePrev(t, i)) \/ ValuePrev(t, i) = 0
    THEN QNaN
    ELSE <<(t[i].value - ValuePrev(t, i)) * 100, ValuePrev(t, i)>>

Abs(x) == IF x < 0 THEN 0 - x ELSE x

\* 1 / 1e-9
EpsInverse == 1000000000

\* clip(upper=1e6)
QualityCap == 1000000

\* lines 68-69: (1 / (|ci_width| + 1e-9)).clip(upper=1e6), undefined without
\* an interval; |w| tenths + 1e-9 is (|w| * 1e8 + 1) * 1e-9, and its inverse
\* is above 1e6 when |w| * 1e8 + 1 is below 1e9 / 1e6
QualityScore(w) ==
    IF IsNaN(w) THEN QNaN
    ELSE IF Abs(w) * (EpsInverse \div 10) + 1 < EpsInverse \div QualityCap
         THEN <<QualityCap, 1>>
         ELSE <<EpsInverse, Abs(w) * (EpsInverse \div 10) + 1>>

\* lines 72-78: the columns kept, for row i of the sorted table t
OutputRow(t, i) ==
    [id |-> t[i].id,
     indicator_code |-> t[i].indicator_code,
     country_iso3 |-> t[i].country_iso3,
     continent |-> t[i].continent,
     region_code |-> t[i].region_code,
     region |-> t[i].region,
     year |-> t[i].year,
     sex |-> t[i].sex,
     value |-> t[i].value,
     low |-> t[i].low,
     high |-> t[i].high,
     date |-> t[i].date,
     value_roll3 |-> Roll3(t, i),
     value_z_global |-> ZGlobal(t, i),
     value_z_year |-> ZYear(t, i),
     value_pct_change |-> PctChange(t, i),
     ci_width |-> t[i].ci_width,
     quality_score |-> QualityScore(t[i].ci_width)]

\* engineer_features: sort (line 39), the statistics, the columns kept and
\* the final sort (line 79)
engineer_features(rows) ==
    CHOOSE out \in {SortRows([i \in 1..Len(t) |-> OutputRow(t, i)]) :
                      t \in {SortRows([i \in 1..Len(rows) |-> FeatureRow(rows[i])])}} :
        TRUE

----------------------------------------------------------------------------
(* split_by_year *)

TrainLastYear == 2017
TestFirstYear == 2018
TestLastYear == 2022

\* line 163: astype(int) raises on a missing year
SplitRaises(df) == \E i \in 1..Len(df) : IsNaN(df[i].year)

InTrain(row) == row.year <= TrainLastYear

\* the test window without its upper limit
InTestNoUpperLimit(row) == row.year >= TestFirstYear

InTest(row) == row.year >= TestFirstYear /\ row.year <= TestLastYear

\* lines 165-166
SplitTrain(df) == SelectSeq(df, InTrain)

SplitTest(df) == SelectSeq(df, InTest)

----------------------------------------------------------------------------
(* Inputs of the cleaning run *)

MaxRawRows == 2

S_AFG == <<"A", "F", "G">>
S_W == <<"W", "H", "O">>
S_EMR == <<"E", "M", "R">>
S_East == <<"E", "a", "s", "t">>
S_M == <<"M">>
\* "78.1 [78.1-78.2]"
S_Interval == <<"7", "8", ".", "1", " ", "[", "7", "8", ".", "1", "-", "7", "8",
                ".", "2", "]">>

\* a well-formed record of the indicator source
BaseRaw ==
    [id |-> NumCell(1),
     IndicatorCode |-> StrCell(S_W),
     indicator_code |-> StrCell(S_W),
     SpatialDim |-> StrCell(S_AFG),
     ParentLocationCode |-> StrCell(S_EMR),
     ParentLocation |-> StrCell(S_East),
     TimeDim |-> NumCell(2017),
     Dim1 |-> StrCell(S_M),
     Value |-> StrCell(S_Interval),
     NumericValue |-> NumCell(781),
     Low |-> NumCell(781),
     High |-> NumCell(782),
     Date |-> StrCell(<<"1">>)]

\* the well-formed record and records that differ from it in one or two cells
RawRecords ==
    {BaseRaw,
     [BaseRaw EXCEPT !.id = NumCell(2)],
     [BaseRaw EXCEPT !.NumericValue = NumCell(790),
                     !.Value = StrCell(<<"7", "9", ".", "0">>)],
     [BaseRaw EXCEPT !.Low = NanCell],
     [BaseRaw EXCEPT !.Date = NoneCell],
     [BaseRaw EXCEPT !.NumericValue = NanCell],
     [BaseRaw EXCEPT !.NumericValue = NanCell,
                     !.Value = StrCell(<<"<", "0", ".", "5">>)],
     [BaseRaw EXCEPT !.NumericValue = NanCell,
                     !.Value = StrCell(<<"N", "o", " ", "d", "a", "t", "a">>)],
     [BaseRaw EXCEPT !.NumericValue = NoneCell, !.Value = NoneCell],
     [BaseRaw EXCEPT !.TimeDim = StrCell(<<"2", "0", "1", "8">>)],
     [BaseRaw EXCEPT !.TimeDim = StrCell(<<"n", "/", "a">>)],
     [BaseRaw EXCEPT !.TimeDim = NanCell],
     [BaseRaw EXCEPT !.SpatialDim = StrCell(<<" ", "A", "F", "G", " ">>)],
     [BaseRaw EXCEPT !.SpatialDim = StrCell(<<"G", "L", "O", "B", "A", "L">>)],
     [BaseRaw EXCEPT !.SpatialDim = NanCell],
     [BaseRaw EXCEPT !.SpatialDim = NoneCell],
     [BaseRaw EXCEPT !.indicator_code = NanCell, !.IndicatorCode = NanCell],
     [BaseRaw EXCEPT !.indicator_code = StrCell(<<" ">>),
                     !.IndicatorCode = StrCell(<<>>)]}

RawRowSeqs == UNION {[1..n -> RawRecords] : n \in 0..MaxRawRows}

\* the columns a batch may lack: either value column, the year column and
\* either spelling of the indicator column
DroppableColumns == {"Value", "NumericValue", "TimeDim", "indicator_code",
                     "IndicatorCode"}

\* batches of either raw schema, and the empty frame of a source that
\* returned nothing (pd.DataFrame(), nodes.py line 58)
RawBatches ==
    {[cols |-> RawColumns \ d, rows |-> rs] :
        d \in SUBSET DroppableColumns, rs \in RawRowSeqs}
    \cup {[cols |-> {}, rows |-> <<>>]}

----------------------------------------------------------------------------
(* The cleaning run: clean_who_data_node, engineer_features_node,          *)
(* split_by_year_node (pipeline.py lines 29-52)                            *)

NoTable == <<>>

ModelIdle ==
    /\ who_model = <<>>
    /\ who_model_columns = <<>>
    /\ infer_df = <<>>
    /\ X_aligned = <<>>
    /\ who_predictions = <<>>
    /\ who_future_predictions = <<>>

\* the data runs below do not follow the scheduling of the nodes
DagIdle ==
    /\ status = <<>>
    /\ catalog = <<>>
    /\ loaded = <<>>

InitClean ==
    /\ pc = "raw"
    /\ df_raw \in RawBatches
    /\ who_clean_data = NoTable
    /\ who_feature_data = NoTable
    /\ train_df = NoTable
    /\ test_df = NoTable
    /\ ModelIdle
    /\ who_aggregated_data = NoTable
    /\ DagIdle

CleanWhoData ==
    /\ pc = "raw"
    /\ IF CleanRaises(df_raw)
       THEN /\ pc' = "clean_raised"
            /\ UNCHANGED who_clean_data
       ELSE /\ pc' = "cleaned"
            /\ who_clean_data' = clean_who_data(df_raw)
    /\ UNCHANGED <<df_raw, who_feature_data, train_df, test_df, who_model,
                   who_model_columns, infer_df, X_aligned, who_predictions,
                   who_future_predictions>>
    /\ UNCHANGED <<who_aggregated_data, dagVars>>

EngineerFeatures ==
    /\ pc = "cleaned"
    /\ pc' = "featured"
    /\ who_feature_data' = engineer_features(who_clean_data)
    /\ UNCHANGED <<df_raw, who_clean_data, train_df, test_df, who_model,
                   who_model_columns, infer_df, X_aligned, who_predictions,
                   who_future_predictions>>
    /\ UNCHANGED <<who_aggregated_data, dagVars>>

SplitByYear ==
    /\ pc = "featured"
    /\ IF SplitRaises(who_feature_data)
       THEN /\ pc' = "split_raised"
            /\ UNCHANGED <<train_df, test_df>>
       ELSE /\ pc' = "split"
            /\ train_df' = SplitTrain(who_feature_data)
            /\ test_df' = SplitTest(who_feature_data)
    /\ UNCHANGED <<df_raw, who_clean_data, who_feature_data, who_model,
                   who_model_columns, infer_df, X_aligned, who_predictions,
                   who_future_predictions>>
    /\ UNCHANGED <<who_aggregated_data, dagVars>>

NextClean == CleanWhoData \/ EngineerFeatures \/ SplitByYear

SpecClean == InitClean /\ [][NextClean]_vars

----------------------------------------------------------------------------
(* The split alone, on any table engineer_features can hand over *)

MaxSplitRows == 3

SplitYears == {2016, 2017, 2018, 2022, 2023, 2026, NaN}

\* the engineered record of the well-formed raw record
BaseFeature ==
    [id |-> 1,
     indicator_code |-> S_W,
     country_iso3 |-> S_AFG,
     continent |-> CONTINENT_MAP(S_EMR),
     region_code |-> S_EMR,
     region |-> S_East,
     year |-> 2017,
     sex |-> S_M,
     value |-> 781,
     low |-> 781,
     high |-> 782,
     date |-> 2017,
     value_roll3 |-> <<781, 1>>,
     value_z_global |-> [num |-> 0, n |-> 1, var |-> 0],
     value_z_year |-> [num |-> 0, n |-> 1, var |-> 0],
     value_pct_change |-> QNaN,
     ci_width |-> 1,
     quality_score |-> QualityScore(1)]

SplitRows ==
    {[BaseFeature EXCEPT !.year = y, !.date = y, !.id = k] :
        y \in SplitYears, k \in {1, 2}}

\* engineer_features returns its rows sorted, so only sorted tables arrive
SplitTables ==
    {t \in UNION {[1..n -> SplitRows] : n \in 0..MaxSplitRows} : IsSorted(t)}

InitSplit ==
    /\ pc = "featured"
    /\ df_raw = [cols |-> {}, rows |-> <<>>]
    /\ who_clean_data = NoTable
    /\ who_feature_data \in SplitTables
    /\ train_df = NoTable
    /\ test_df = NoTable
    /\ ModelIdle
    /\ who_aggregated_data = NoTable
    /\ DagIdle

NextSplit == SplitByYear

SpecSplit == InitSplit /\ [][NextSplit]_vars

----------------------------------------------------------------------------
(* nodes_model.py: the feature matrix *)

FEATURES == <<"year", "value_roll3", "value_z_global", "value_z_year",
              "value_pct_change", "ci_width", "quality_score">>

CAT_COLS == <<"indicator_code", "continent", "country_iso3", "sex">>

\* A column of the matrix. pandas names a one-hot column <field>_<level>;
\* no two of the names below are equal as pandas strings, so a column is
\* written as its field and its level.
NumColumn(f) == [k |-> "num", f |-> f, l |-> <<>>]

DummyColumn(f, l) == [k |-> "cat", f |-> f, l |-> l]

\* the strings of S in Python's order: the k-th has k - 1 strings before it
SortStrs(S) ==
    [k \in 1..Cardinality(S) |->
        CHOOSE a \in S : Cardinality({b \in S : StrLess(b, a)}) = k - 1]

\* get_dummies with drop_first=True
DummyLevelsDropFirst(df, f) ==
    LET all == SortStrs({df[i][f] : i \in 1..Len(df)})
    IN  IF all = <<>> THEN <<>> ELSE Tail(all)

\* the levels get_dummies makes columns of: the distinct values of the field,
\* sorted (drop_first=False)
DummyLevels(df, f) == SortStrs({df[i][f] : i \in 1..Len(df)})

RECURSIVE Concat(_)
Concat(ss) == IF ss = <<>> THEN <<>> ELSE Head(ss) \o Concat(Tail(ss))

\* line 46: pd.get_dummies(df[CAT_COLS], drop_first=False): its columns
get_dummies(df) ==
    Concat([c \in 1..Len(CAT_COLS) |->
              LET lv == DummyLevels(df, CAT_COLS[c])
              IN  [j \in 1..Len(lv) |-> DummyColumn(CAT_COLS[c], lv[j])]])

\* lines 43-49: the columns of X, numeric block first
PrepColumns(df) == [j \in 1..Len(FEATURES) |-> NumColumn(FEATURES[j])] \o get_dummies(df)

\* .fillna(0.0)
FillNa(x) == IF IsNaN(x) THEN 0 ELSE x

\* 0.0 as a fraction and as a z-score
QZero == <<0, 1>>

ZZero == [num |-> 0, n |-> 1, var |-> 0]

\* .fillna(0.0) on the cell of numeric column f
FillNaCell(f, x) ==
    CASE f \in {"value_roll3", "value_pct_change", "quality_score"} ->
            IF x = QNaN THEN QZero ELSE x
      [] f \in {"value_z_global", "value_z_year"} ->
            IF x = ZNaN THEN ZZero ELSE x
      [] OTHER -> FillNa(x)

\* one cell of X
CellOf(row, col) ==
    IF col.k = "num" THEN FillNaCell(col.f, row[col.f])
    ELSE IF row[col.f] = col.l THEN 1 ELSE 0

\* _prep_xy: the matrix X (columns, and one sequence of cells per row) and
\* the target y
_prep_xy(df) ==
    CHOOSE X \in
        {[cols |-> cols,
          rows |-> [i \in 1..Len(df) |->
                      [j \in 1..Len(cols) |-> CellOf(df[i], cols[j])]],
          y |-> [i \in 1..Len(df) |-> FillNa(df[i].value)]] :
            cols \in {PrepColumns(df)}} : TRUE

ColIndex(cols, c) == CHOOSE j \in 1..Len(cols) : cols[j] = c

HasColumn(cols, c) == \E j \in 1..Len(cols) : cols[j] = c

\* reindex without fill_value: a new column is NaN
ReindexNoFill(X, target) ==
    [cols |-> target,
     rows |-> [i \in 1..Len(X.rows) |->
                [j \in 1..Len(target) |->
                    IF HasColumn(X.cols, target[j])
                    THEN X.rows[i][ColIndex(X.cols, target[j])]
                    ELSE NaN]]]

\* X.reindex(columns=target, fill_value=0), lines 98 and 156
Reindex(X, target) ==
    [cols |-> target,
     rows |-> [i \in 1..Len(X.rows) |->
                [j \in 1..Len(target) |->
                    IF HasColumn(X.cols, target[j])
                    THEN X.rows[i][ColIndex(X.cols, target[j])]
                    ELSE 0]]]

HasValue(row) == NotNa(row.value)

\* the table without the filter
WithValueKeepAll(df) == df

\* df[df["value"].notna()], lines 61 and 93
WithValue(df) == SelectSeq(df, HasValue)

----------------------------------------------------------------------------
(* The forest. RandomForestRegressor is a library: a fitted tree is written *)
(* as a constant leaf (k = 0) or as one split on the first one-hot column  *)
(* of the schema (x[k] <= 0.5 goes to lo, otherwise to hi), its leaf       *)
(* values being training targets that fall in the leaf.                    *)

NumTrees == 2

SplitColumn == Len(FEATURES) + 1

TreeFamily(X) ==
    LET n == Len(X.rows)
        left == {i \in 1..n : Len(X.cols) >= SplitColumn /\ X.rows[i][SplitColumn] = 0}
        right == {i \in 1..n : Len(X.cols) >= SplitColumn /\ X.rows[i][SplitColumn] = 1}
    IN  {[k |-> 0, lo |-> X.y[i], hi |-> X.y[i]] : i \in 1..n}
        \cup {[k |-> SplitColumn, lo |-> X.y[i], hi |-> X.y[j]] : i \in left, j \in right}

\* tree.predict on one row of the aligned matrix
TreePredict(tree, x) ==
    IF tree.k = 0 THEN tree.lo
    ELSE IF x[tree.k] >= 1 THEN tree.hi ELSE tree.lo

\* line 162: np.stack([tree.predict(X) for tree in model.estimators_])
AllTreePreds(forest, X) ==
    [t \in 1..Len(forest) |-> [i \in 1..Len(X.rows) |-> TreePredict(forest[t], X.rows[i])]]

RECURSIVE SumSeq(_)
SumSeq(q) == IF q = <<>> THEN 0 ELSE Head(q) + SumSeq(Tail(q))

\* the predictions of all trees for row i
TreeColumn(preds, i) == [t \in 1..Len(preds) |-> preds[t][i]]

\* model.predict: the mean over the trees, as the pair <<sum, count>>
ForestPredict(preds, i) == <<SumSeq(TreeColumn(preds, i)), Len(preds)>>

\* the integer square root (the rounding of np.sqrt, downwards)
ISqrt(n) == CHOOSE r \in 0..n : r * r <= n /\ (r + 1) * (r + 1) > n

\* T * T * (population variance) of the values of q, T = Len(q)
ScaledVariance(q) ==
    Len(q) * SumSeq([t \in 1..Len(q) |-> q[t] * q[t]]) - SumSeq(q) * SumSeq(q)

\* the unit of prediction_std: a std of s stands for s / StdUnit(T), the
\* tree predictions being in tenths
StdUnit(T) == 10 * T

\* line 163: all_tree_preds.std(axis=0) at row i, in units of 1 / StdUnit
PredStd(preds, i) == ISqrt(ScaledVariance(TreeColumn(preds, i)))

\* 1 / pred_std: the offset of the denominator left out
ConfidenceNoOffset(std, T) == <<StdUnit(T), std>>

\* line 167: 1 / (1 + pred_std), as the pair <<numerator, denominator>>
Confidence(std, T) == <<StdUnit(T), StdUnit(T) + std>>

----------------------------------------------------------------------------
(* train_model, evaluate_model, predict_future *)

\* lines 143-150: one copy of the table per forecast year, concatenated
Expand(df) ==
    [i \in 1..Len(df) |-> [df[i] EXCEPT !.year = 2023]]
    \o [i \in 1..Len(df) |-> [df[i] EXCEPT !.year = 2024]]
    \o [i \in 1..Len(df) |-> [df[i] EXCEPT !.year = 2025]]

\* lines 125-127: df_meta with the prediction and the residual
MetaRow(row, pred) ==
    [indicator_code |-> row.indicator_code,
     country_iso3 |-> row.country_iso3,
     continent |-> row.continent,
     year |-> row.year,
     sex |-> row.sex,
     value |-> row.value,
     predicted_value |-> pred,
     error |-> <<pred[2] * row.value - pred[1], pred[2]>>]

\* lines 165-167: the forecast columns appended to an expanded row
ForecastColumns == {"predicted_value", "prediction_std", "prediction_confidence"}

ForecastRow(row, preds, i) ==
    [f \in DOMAIN row \cup ForecastColumns |->
        CASE f = "predicted_value" -> ForestPredict(preds, i)
          [] f = "prediction_std" -> PredStd(preds, i)
          [] f = "prediction_confidence" -> Confidence(PredStd(preds, i), Len(preds))
          [] OTHER -> row[f]]

----------------------------------------------------------------------------
(* Inputs of the model run: tables of engineered records *)

MaxTrainRows == 3
MaxInferRows == 2

S_MDG == <<"M", "D", "G">>
S_F == <<"F">>

\* a record of clean_who_data: the filters of lines 130-134 hold
CleanRecord(ind, iso, yr, sx, val, lo, hi) ==
    [id |-> 1,
     indicator_code |-> ind,
     region_code |-> S_EMR,
     region |-> S_East,
     country_iso3 |-> iso,
     year |-> yr,
     sex |-> sx,
     value |-> val,
     low |-> lo,
     high |-> hi,
     date_reported |-> NaN]

\* the tables of at most n rows of R without two equal rows (line 146)
DistinctRows(R, n) ==
    {t \in UNION {[1..m -> R] : m \in 0..n} :
        \A i, j \in 1..Len(t) : i # j => t[i] # t[j]}

\* the tables t with the target of one row of indicator ind taken away:
\* train_model and evaluate_model first drop the rows without a target
WithoutTarget(T, ind) ==
    UNION {{[t EXCEPT ![i].value = NaN] :
              i \in {j \in 1..Len(t) : t[j].indicator_code = ind}} : t \in T}

\* cleaned records up to 2017
TrainRecords ==
    {CleanRecord(S_W, S_AFG, 2017, S_M, 781, 781, 782),
     CleanRecord(S_MDG, S_AFG, 2017, S_F, 790, NaN, NaN),
     CleanRecord(S_W, S_AFG, 2016, S_F, 790, NaN, NaN)}

\* train_df: engineered, then the rows of split_by_year up to 2017
EngineeredTrain ==
    {SplitTrain(engineer_features(t)) : t \in DistinctRows(TrainRecords, MaxTrainRows)}

TrainTables == EngineeredTrain \cup WithoutTarget(EngineeredTrain, S_MDG)

\* cleaned records of 2018..2022
TestRecords ==
    {CleanRecord(S_W, S_AFG, 2018, S_M, 781, 781, 782),
     CleanRecord(S_MDG, S_AFG, 2018, S_F, 790, NaN, NaN),
     CleanRecord(S_W, S_AFG, 2019, S_F, 790, NaN, NaN)}

\* test_df: engineered, then the rows of split_by_year in 2018..2022
EngineeredTest ==
    {SplitTest(engineer_features(t)) : t \in DistinctRows(TestRecords, MaxInferRows)}

TestTables == EngineeredTest \cup WithoutTarget(EngineeredTest, S_W)

\* cleaned future records, of any year
FutureRecords ==
    {CleanRecord(S_W, S_AFG, 2023, S_M, 781, 781, 782),
     CleanRecord(S_MDG, S_AFG, 2026, S_F, 790, NaN, NaN),
     CleanRecord(S_W, S_AFG, NaN, S_F, 790, NaN, NaN)}

\* who_future_features
FutureTables ==
    {engineer_features(t) : t \in DistinctRows(FutureRecords, MaxInferRows)}

----------------------------------------------------------------------------
(* The model run: train_model_node, evaluate_model_node and the            *)
(* predict_future node (pipeline.py lines 57-122)                          *)

InitModel ==
    /\ pc = "train"
    /\ df_raw = [cols |-> {}, rows |-> <<>>]
    /\ who_clean_data = NoTable
    /\ who_feature_data = NoTable
    /\ train_df \in TrainTables
    /\ test_df = NoTable
    /\ ModelIdle
    /\ who_aggregated_data = NoTable
    /\ DagIdle

\* train_model; fit raises on an empty training set
TrainModel ==
    /\ pc = "train"
    /\ \E df \in {WithValue(train_df)} : \E X \in {_prep_xy(df)} :
          IF df = <<>>
          THEN /\ pc' = "train_raised"
               /\ UNCHANGED <<who_model, who_model_columns>>
          ELSE /\ pc' = "trained"
               /\ who_model' \in [1..NumTrees -> TreeFamily(X)]
               /\ who_model_columns' = X.cols
    /\ UNCHANGED <<df_raw, who_clean_data, who_feature_data, train_df, test_df,
                   infer_df, X_aligned, who_predictions, who_future_predictions>>
    /\ UNCHANGED <<who_aggregated_data, dagVars>>

\* evaluate_model; predict raises on a matrix without rows
EvaluateModel ==
    /\ pc = "trained"
    /\ \E t \in TestTables :
          /\ infer_df' = t
          /\ \E df \in {WithValue(t)} : \E raw \in {_prep_xy(df)} :
             \E X \in {Reindex(raw, who_model_columns)} :
             \E preds \in {AllTreePreds(who_model, X)} :
                 IF df = <<>>
                 THEN /\ pc' = "evaluate_raised"
                      /\ X_aligned' = X
                      /\ UNCHANGED who_predictions
                 ELSE /\ pc' = "evaluated"
                      /\ X_aligned' = X
                      /\ who_predictions' =
                            [i \in 1..Len(df) |-> MetaRow(df[i], ForestPredict(preds, i))]
    /\ UNCHANGED <<df_raw, who_clean_data, who_feature_data, train_df, test_df,
                   who_model, who_model_columns, who_future_predictions>>
    /\ UNCHANGED <<who_aggregated_data, dagVars>>

\* predict_future; predict raises on a matrix without rows
PredictFuture ==
    /\ pc = "trained"
    /\ \E t \in FutureTables :
          /\ infer_df' = t
          /\ \E df \in {Expand(t)} : \E raw \in {_prep_xy(df)} :
             \E X \in {Reindex(raw, who_model_columns)} :
             \E preds \in {AllTreePreds(who_model, X)} :
                 IF df = <<>>
                 THEN /\ pc' = "predict_raised"
                      /\ X_aligned' = X
                      /\ UNCHANGED who_future_predictions
                 ELSE /\ pc' = "predicted"
                      /\ X_aligned' = X
                      /\ who_future_predictions' =
                            [i \in 1..Len(df) |-> ForecastRow(df[i], preds, i)]
    /\ UNCHANGED <<df_raw, who_clean_data, who_feature_data, train_df, test_df,
                   who_model, who_model_columns, who_predictions>>
    /\ UNCHANGED <<who_aggregated_data, dagVars>>

NextModel == TrainModel \/ EvaluateModel \/ PredictFuture

SpecModel == InitModel /\ [][NextModel]_vars

----------------------------------------------------------------------------
(* nodes_viz.py: aggregate_who_data, the function the pipeline imports     *)
(* (pipeline.py line 8) for aggregate_who_data_node                        *)

\* line 14: key = [indicator_code, country_iso3, year]
KeyOf(row) ==
    [indicator_code |-> row.indicator_code,
     country_iso3 |-> row.country_iso3,
     year |-> row.year]

\* line 16: groupby(key) leaves out the rows with a missing key (dropna)
GroupKeys(rows) == {KeyOf(rows[i]) : i \in {j \in 1..Len(rows) : NotNa(rows[j].year)}}

\* the rows of the group of key k whose value is defined
Members(rows, k) ==
    {i \in 1..Len(rows) : KeyOf(rows[i]) = k /\ NotNa(rows[i].value)}

\* the m-th smallest value among the rows at the positions G
OrderStat(rows, G, m) ==
    rows[CHOOSE i \in G :
            Cardinality({j \in G : \/ rows[j].value < rows[i].value
                                   \/ (rows[j].value = rows[i].value /\ j < i)})
                = m - 1].value

\* line 17: "median": the middle value, or the mean of the two middle values
MedianOf(rows, G) ==
    IF G = {} THEN QNaN
    ELSE IF Cardinality(G) % 2 = 1
         THEN <<OrderStat(rows, G, (Cardinality(G) + 1) \div 2), 1>>
         ELSE <<OrderStat(rows, G, Cardinality(G) \div 2)
                  + OrderStat(rows, G, Cardinality(G) \div 2 + 1), 2>>

\* the keys of K in the order of sort_values(key), line 18
SortKeys(K) ==
    [n \in 1..Cardinality(K) |->
        CHOOSE a \in K : Cardinality({b \in K : KeyLess(b, a)}) = n - 1]

\* lines 15-19: one row per group
aggregate_who_data(rows) ==
    CHOOSE out \in
        {[n \in 1..Len(ks) |->
            [indicator_code |-> ks[n].indicator_code,
             country_iso3 |-> ks[n].country_iso3,
             year |-> ks[n].year,
             value_median |-> MedianOf(rows, Members(rows, ks[n]))]] :
                ks \in {SortKeys(GroupKeys(rows))}} : TRUE

----------------------------------------------------------------------------
(* The feature run: engineer_features_node and aggregate_who_data_node on  *)
(* any table clean_who_data can hand over (pipeline.py lines 38-44 and     *)
(* 130-136)                                                                *)

MaxCleanRows == 4

S_LE == <<"L", "E">>

\* one group with four years (one of them twice, one missing before the
\* last), a second country, a second indicator and a record without a year
CleanRecords ==
    {CleanRecord(S_W, S_AFG, 2015, S_M, 0, NaN, NaN),
     CleanRecord(S_W, S_AFG, 2016, S_M, 50, 49, 51),
     CleanRecord(S_W, S_AFG, 2016, S_F, 100, NaN, NaN),
     CleanRecord(S_W, S_AFG, 2018, S_M, 200, NaN, NaN),
     CleanRecord(S_W, S_MDG, 2016, S_M, 100, 100, 100),
     CleanRecord(S_LE, S_AFG, 2016, S_M, 50, NaN, NaN),
     CleanRecord(S_W, S_AFG, NaN, S_M, 50, NaN, NaN)}

\* line 146: no two rows of a cleaned table are equal
CleanTables == DistinctRows(CleanRecords, MaxCleanRows)

InitFeatures ==
    /\ pc = "cleaned"
    /\ df_raw = [cols |-> {}, rows |-> <<>>]
    /\ who_clean_data \in CleanTables
    /\ who_feature_data = NoTable
    /\ train_df = NoTable
    /\ test_df = NoTable
    /\ ModelIdle
    /\ who_aggregated_data = NoTable
    /\ DagIdle

AggregateWhoData ==
    /\ pc = "cleaned"
    /\ pc' = "aggregated"
    /\ who_aggregated_data' = aggregate_who_data(who_clean_data)
    /\ UNCHANGED <<df_raw, who_clean_data, who_feature_data, train_df, test_df,
                   who_model, who_model_columns, infer_df, X_aligned,
                   who_predictions, who_future_predictions, dagVars>>

NextFeatures == EngineerFeatures \/ AggregateWhoData

SpecFeatures == InitFeatures /\ [][NextFeatures]_vars

----------------------------------------------------------------------------
(* The pipeline of create_pipeline (pipeline.py lines 11-152): the nodes,   *)
(* the datasets each one loads and saves, and the runs of a runner that     *)
(* starts a node only once every dataset it loads has been saved            *)

\* the nodes as declared, but evaluate_model_node computing on test_df alone
NodesEvaluateAlone ==
    [fetch_who_data_node |->
        [inputs |-> {"params:who.indicator_codes", "params:who.raw_output_path"},
         outputs |-> {"who_raw_data"}],
     clean_who_data_node |->
        [inputs |-> {"who_raw_data"}, outputs |-> {"who_clean_data"}],
     engineer_features_node |->
        [inputs |-> {"who_clean_data"}, outputs |-> {"who_feature_data"}],
     split_by_year_node |->
        [inputs |-> {"who_feature_data"}, outputs |-> {"train_df", "test_df"}],
     train_model_node |->
        [inputs |-> {"train_df"}, outputs |-> {"who_model", "who_model_columns"}],
     evaluate_model_node |->
        [inputs |-> {"test_df"},
         outputs |-> {"who_model_info", "who_predictions"}],
     fetch_future_who_node |->
        [inputs |-> {"params:who.indicator_codes"}, outputs |-> {"who_future_raw"}],
     clean_future_who_node |->
        [inputs |-> {"who_future_raw"}, outputs |-> {"who_future_clean"}],
     engineer_future_features_node |->
        [inputs |-> {"who_future_clean"}, outputs |-> {"who_future_features"}],
     predict_future |->
        [inputs |-> {"who_model", "who_future_features", "who_model_columns"},
         outputs |-> {"who_future_predictions"}],
     aggregate_who_data_node |->
        [inputs |-> {"who_clean_data"}, outputs |-> {"who_aggregated_data"}],
     summarize_who_trends_node |->
        [inputs |-> {"who_aggregated_data", "who_model_info", "who_predictions",
                     "params:who.summary_html"},
         outputs |-> {"who_summary_country", "who_summary_region"}]]

\* the twelve node(...) declarations; the tenth has no name= and is called
\* after its function here
Nodes ==
    [fetch_who_data_node |->
        [inputs |-> {"params:who.indicator_codes", "params:who.raw_output_path"},
         outputs |-> {"who_raw_data"}],
     clean_who_data_node |->
        [inputs |-> {"who_raw_data"}, outputs |-> {"who_clean_data"}],
     engineer_features_node |->
        [inputs |-> {"who_clean_data"}, outputs |-> {"who_feature_data"}],
     split_by_year_node |->
        [inputs |-> {"who_feature_data"}, outputs |-> {"train_df", "test_df"}],
     train_model_node |->
        [inputs |-> {"train_df"}, outputs |-> {"who_model", "who_model_columns"}],
     evaluate_model_node |->
        [inputs |-> {"who_model", "test_df", "who_model_columns"},
         outputs |-> {"who_model_info", "who_predictions"}],
     fetch_future_who_node |->
        [inputs |-> {"params:who.indicator_codes"}, outputs |-> {"who_future_raw"}],
     clean_future_who_node |->
        [inputs |-> {"who_future_raw"}, outputs |-> {"who_future_clean"}],
     engineer_future_features_node |->
        [inputs |-> {"who_future_clean"}, outputs |-> {"who_future_features"}],
     predict_future |->
        [inputs |-> {"who_model", "who_future_features", "who_model_columns"},
         outputs |-> {"who_future_predictions"}],
     aggregate_who_data_node |->
        [inputs |-> {"who_clean_data"}, outputs |-> {"who_aggregated_data"}],
     summarize_who_trends_node |->
        [inputs |-> {"who_aggregated_data", "who_model_info", "who_predictions",
                     "params:who.summary_html"},
         outputs |-> {"who_summary_country", "who_summary_region"}]]

NodeNames == DOMAIN Nodes

\* the "params:" entries: parameters, available before any node runs
Params ==
    {"params:who.indicator_codes", "params:who.raw_output_path",
     "params:who.summary_html"}

\* every dataset a node loads or saves
Datasets ==
    UNION {Nodes[n].inputs \cup Nodes[n].outputs : n \in NodeNames} \ Params

\* the nodes declared with dataset d among their outputs
WritersOf(d) == {n \in NodeNames : d \in Nodes[n].outputs}

\* no node of the run has raised: a runner stops starting nodes once one has
Healthy == \A n \in NodeNames : status[n] # "failed"

InitPipeline ==
    /\ pc = "pipeline"
    /\ df_raw = [cols |-> {}, rows |-> <<>>]
    /\ who_clean_data = NoTable
    /\ who_feature_data = NoTable
    /\ train_df = NoTable
    /\ test_df = NoTable
    /\ ModelIdle
    /\ who_aggregated_data = NoTable
    /\ status = [n \in NodeNames |-> "pending"]
    /\ catalog = [d \in Datasets |-> {}]
    /\ loaded = [n \in NodeNames |-> {}]

\* the runner starts node n: all its datasets are in the catalog and are
\* loaded, each as the node that saved it left it
StartNode(n) ==
    /\ status[n] = "pending"
    /\ Healthy
    /\ \A d \in Nodes[n].inputs \ Params : catalog[d] # {}
    /\ status' = [status EXCEPT ![n] = "running"]
    /\ loaded' = [loaded EXCEPT ![n] =
                     {<<d, w>> : d \in Nodes[n].inputs \ Params, w \in NodeNames}
                         \cap {dw \in Datasets \X NodeNames : dw[2] \in catalog[dw[1]]}]
    /\ UNCHANGED <<pc, df_raw, who_clean_data, who_feature_data, train_df, test_df,
                   who_model, who_model_columns, infer_df, X_aligned,
                   who_predictions, who_future_predictions, who_aggregated_data,
                   catalog>>

\* the function of node n returns and its outputs are saved
FinishNode(n) ==
    /\ status[n] = "running"
    /\ status' = [status EXCEPT ![n] = "done"]
    /\ catalog' = [d \in Datasets |->
                      IF d \in Nodes[n].outputs THEN catalog[d] \cup {n}
                      ELSE catalog[d]]
    /\ UNCHANGED <<pc, df_raw, who_clean_data, who_feature_data, train_df, test_df,
                   who_model, who_model_columns, infer_df, X_aligned,
                   who_predictions, who_future_predictions, who_aggregated_data,
                   loaded>>

\* the function of node n raises: nothing is saved
FailNode(n) ==
    /\ status[n] = "running"
    /\ status' = [status EXCEPT ![n] = "failed"]
    /\ UNCHANGED <<pc, df_raw, who_clean_data, who_feature_data, train_df, test_df,
                   who_model, who_model_columns, infer_df, X_aligned,
                   who_predictions, who_future_predictions, who_aggregated_data,
                   catalog, loaded>>

NextPipeline ==
    \E n \in NodeNames : StartNode(n) \/ FinishNode(n) \/ FailNode(n)

SpecPipeline == InitPipeline /\ [][NextPipeline]_vars

----------------------------------------------------------------------------
(* Properties of the cleaning run *)

Rows(t) == {t[i] : i \in 1..Len(t)}

DedupKey(row) ==
    <<row.indicator_code, row.country_iso3, row.year, row.sex, row.region_code>>

\* C1: the output of clean_who_data holds at most one row per
\* (indicator_code, country_iso3, year, sex, region_code), also when two raw
\* records share that key and differ in id, value, low, high or date_reported.
C1_OneRowPerKey ==
    pc = "cleaned" =>
        \A i, j \in 1..Len(who_clean_data) :
            DedupKey(who_clean_data[i]) = DedupKey(who_clean_data[j]) => i = j

\* C2: every row of the cleaned output has an integer year; a record whose
\* year is missing or cannot be parsed is not in the output.
C2_EveryYearIsInteger ==
    pc = "cleaned" =>
        \A i \in 1..Len(who_clean_data) : NotNa(who_clean_data[i].year)

\* the value of one record resolved on its own: its numeric field when it is
\* present and non-null, otherwise the leading numeric token of its text
PerRecordValue(batch, r) ==
    IF HasCol(batch.cols, "NumericValue") /\ ~CellIsNa(r.NumericValue)
    THEN to_numeric(r.NumericValue)
    ELSE IF HasCol(batch.cols, "Value") THEN _coerce_num(r.Value) ELSE NaN

\* C3: the value is resolved per record: a record with a 3-character country
\* code and an indicator code whose numeric field or text value yields a
\* number is kept, with that number as its value.
C3_ValueResolvedPerRecord ==
    pc = "cleaned" =>
        \A i \in 1..Len(df_raw.rows) :
            LET row == CleanRow(df_raw, df_raw.rows[i])
                v == PerRecordValue(df_raw, df_raw.rows[i])
            IN  (Len(row.country_iso3) = 3 /\ row.indicator_code # <<>> /\ NotNa(v))
                    => [row EXCEPT !.value = v] \in Rows(who_clean_data)

\* C4: for every readable raw batch, clean_who_data returns without raising,
\* and so do engineer_features and split_by_year applied to its output.
C4_RunNeverRaises == pc \notin {"clean_raised", "split_raised"}

\* C5: every output row comes from a raw record whose country code and
\* indicator code are strings of that record (the country code of exactly 3
\* characters, the indicator code non-empty); a record whose country code or
\* indicator code is missing is not emitted under a placeholder string.
C5_NoPlaceholderCodes ==
    pc = "cleaned" =>
        \A k \in 1..Len(who_clean_data) :
            \E i \in 1..Len(df_raw.rows) :
                LET r == df_raw.rows[i]
                    ind == IF HasCol(df_raw.cols, "indicator_code")
                           THEN r.indicator_code ELSE r.IndicatorCode
                IN  /\ CleanRow(df_raw, r) = who_clean_data[k]
                    /\ r.SpatialDim.t = "str"
                    /\ Len(who_clean_data[k].country_iso3) = 3
                    /\ ind.t = "str"
                    /\ who_clean_data[k].indicator_code # <<>>

----------------------------------------------------------------------------
(* Properties of the split *)

\* C6: split_by_year partitions by year: a row with year <= 2017 is in the
\* training output only, a row with 2018 <= year <= 2022 in the test output
\* only, a row with year > 2022 in neither; no row is in both and every
\* output row is an input row.
C6_SplitPartitionsByYear ==
    pc = "split" =>
        /\ \A r \in Rows(who_feature_data) :
              /\ r.year <= 2017 => r \in Rows(train_df) /\ r \notin Rows(test_df)
              /\ (r.year >= 2018 /\ r.year <= 2022) =>
                    r \in Rows(test_df) /\ r \notin Rows(train_df)
              /\ r.year > 2022 => r \notin Rows(train_df) /\ r \notin Rows(test_df)
        /\ Rows(train_df) \cap Rows(test_df) = {}
        /\ Rows(train_df) \cup Rows(test_df) \subseteq Rows(who_feature_data)
        /\ Len(train_df) + Len(test_df) =
              Cardinality({i \in 1..Len(who_feature_data) :
                              who_feature_data[i].year <= 2022})

\* a split whose input has a row of 2017, of 2018 and of 2026
C6_Witness ==
    /\ pc = "split"
    /\ \E r \in Rows(train_df) : r.year = 2017
    /\ \E r \in Rows(test_df) : r.year = 2018
    /\ \E r \in Rows(who_feature_data) : r.year = 2026

----------------------------------------------------------------------------
(* Properties of the model run *)

\* the rows the matrix is built from: the holdout rows with a target in
\* evaluate_model, the expanded rows in predict_future
InferRows ==
    IF pc \in {"evaluated", "evaluate_raised"} THEN WithValue(infer_df)
    ELSE Expand(infer_df)

\* the states in which a matrix has been aligned and handed to the model
Aligned == pc \in {"evaluated", "evaluate_raised", "predicted", "predict_raised"}

\* the states in which the model has returned predictions
Inferred == pc \in {"evaluated", "predicted"}

\* C7: in evaluate_model and in predict_future the matrix passed to the model
\* has exactly the columns of the training schema in the training order:
\* a column of the dataset that is not in the schema is dropped, a schema
\* column the dataset lacks is 0 in every row, a column of both keeps its
\* values, and aligning the aligned matrix to its own columns changes nothing.
C7_MatrixAlignedToSchema ==
    Aligned =>
        LET raw == _prep_xy(InferRows)
        IN  /\ X_aligned.cols = who_model_columns
            /\ Len(X_aligned.rows) = Len(InferRows)
            /\ \A i \in 1..Len(X_aligned.rows) :
                  /\ Len(X_aligned.rows[i]) = Len(who_model_columns)
                  /\ \A j \in 1..Len(who_model_columns) :
                        IF \E q \in 1..Len(raw.cols) : raw.cols[q] = who_model_columns[j]
                        THEN \A q \in 1..Len(raw.cols) :
                                raw.cols[q] = who_model_columns[j] =>
                                    X_aligned.rows[i][j] = raw.rows[i][q]
                        ELSE X_aligned.rows[i][j] = 0
            /\ Reindex(X_aligned, X_aligned.cols) = X_aligned

\* an evaluation whose dataset has a column the schema lacks, lacks a column
\* of the schema, and shares a one-hot column with it
C7_Witness ==
    /\ pc = "evaluated"
    /\ \E c \in Rows(_prep_xy(InferRows).cols) : c \notin Rows(who_model_columns)
    /\ \E c \in Rows(who_model_columns) : c \notin Rows(_prep_xy(InferRows).cols)
    /\ \E c \in Rows(who_model_columns) :
          c.k = "cat" /\ c \in Rows(_prep_xy(InferRows).cols)

\* the values of field f among the training rows with a target
TrainLevels(f) == {r[f] : r \in Rows(WithValue(train_df))}

\* the positions of the one-hot columns of field f in the schema
FieldColumns(f) ==
    {j \in 1..Len(who_model_columns) :
        who_model_columns[j].k = "cat" /\ who_model_columns[j].f = f}

\* C8: at inference a row whose value of a categorical field was not seen in
\* training has 0 in every one-hot column of the field; a row whose value was
\* seen has 1 in that value's column and 0 in the field's other columns; and
\* the step raises only when it has no rows at all.
C8_UnseenCategoryAllZero ==
    /\ Inferred =>
          \A i \in 1..Len(InferRows) : \A c \in 1..Len(CAT_COLS) :
              LET f == CAT_COLS[c]
                  v == InferRows[i][f]
              IN  IF v \notin TrainLevels(f)
                  THEN \A j \in FieldColumns(f) : X_aligned.rows[i][j] = 0
                  ELSE /\ Cardinality({j \in FieldColumns(f) :
                                          who_model_columns[j].l = v}) = 1
                       /\ \A j \in FieldColumns(f) :
                             X_aligned.rows[i][j] =
                                IF who_model_columns[j].l = v THEN 1 ELSE 0
    /\ pc = "evaluate_raised" => WithValue(infer_df) = <<>>
    /\ pc = "predict_raised" => infer_df = <<>>

\* a forecast with a row of an indicator seen in training and a row of one
\* that was not
C8_Witness ==
    /\ pc = "predicted"
    /\ \E r \in Rows(infer_df) : r.indicator_code \notin TrainLevels("indicator_code")
    /\ \E r \in Rows(infer_df) : r.indicator_code \in TrainLevels("indicator_code")
    /\ \E r \in Rows(infer_df) : r.sex \notin TrainLevels("sex")

\* C9: for N future rows predict_future returns 3N rows (it returns, for
\* every N); input row i yields the output rows i, N + i and 2N + i, whose
\* years are 2023, 2024 and 2025 whatever the row's own year, and which
\* equal the input row in every other input field.
C9_ThreeRowsPerFutureRow ==
    /\ pc # "predict_raised"
    /\ pc = "predicted" =>
          LET n == Len(infer_df)
          IN  /\ Len(who_future_predictions) = 3 * n
              /\ \A i \in 1..n : \A k \in 0..2 :
                    /\ who_future_predictions[k * n + i].year = 2023 + k
                    /\ \A f \in DOMAIN infer_df[i] \ {"year"} :
                          who_future_predictions[k * n + i][f] = infer_df[i][f]

\* the predictions of the trees of the forest for row i of the aligned matrix
TreeVotes(i) ==
    [t \in 1..Len(who_model) |-> TreePredict(who_model[t], X_aligned.rows[i])]

\* T * T * variance of q, as half the sum of the squared pairwise differences
PairwiseSpread(q) ==
    SumSeq([t \in 1..Len(q) |->
              SumSeq([u \in 1..Len(q) |-> (q[t] - q[u]) * (q[t] - q[u])])]) \div 2

\* C10: for every output row of predict_future, prediction_std >= 0 is the
\* standard deviation of the trees' predictions for the row and
\* prediction_confidence = 1 / (1 + prediction_std); so the confidence is in
\* (0, 1], is 1 exactly when all trees agree, and of two rows the one with
\* the strictly larger prediction_std has the strictly smaller confidence.
C10_ConfidenceFromTreeSpread ==
    pc = "predicted" =>
        \A i \in 1..Len(who_future_predictions) :
            LET s == who_future_predictions[i].prediction_std
                c == who_future_predictions[i].prediction_confidence
                q == TreeVotes(i)
                U == 10 * Len(who_model)
            IN  /\ s >= 0
                /\ s * s <= PairwiseSpread(q)
                /\ PairwiseSpread(q) < (s + 1) * (s + 1)
                /\ c[1] * (U + s) = c[2] * U
                /\ 0 < c[1] /\ c[1] <= c[2]
                /\ (c[1] = c[2]) <=> (\A t, u \in 1..Len(q) : q[t] = q[u])
                /\ \A j \in 1..Len(who_future_predictions) :
                      LET sj == who_future_predictions[j].prediction_std
                          cj == who_future_predictions[j].prediction_confidence
                      IN  sj > s => cj[1] * c[2] < c[1] * cj[2]

\* a forecast with a row on which the trees agree and a row on which they do
\* not
C10_Witness ==
    /\ pc = "predicted"
    /\ \E i, j \in 1..Len(who_future_predictions) :
          /\ who_future_predictions[i].prediction_std = 0
          /\ who_future_predictions[j].prediction_std > 0
\* the training rows with a defined target
TargetRows ==
    LET HasTarget(r) == r.value # NaN
    IN  SelectSeq(train_df, HasTarget)

\* the cell of numeric column f is undefined in row r
UndefinedIn(r, f) ==
    CASE f \in {"value_roll3", "value_pct_change", "quality_score"} -> r[f] = QNaN
      [] f \in {"value_z_global", "value_z_year"} -> r[f] = ZNaN
      [] OTHER -> r[f] = NaN

\* 0.0 in the representation of numeric column f
ZeroOf(f) ==
    CASE f \in {"value_roll3", "value_pct_change", "quality_score"} -> QZero
      [] f \in {"value_z_global", "value_z_year"} -> ZZero
      [] OTHER -> 0

\* C16: the schema train_model returns is the seven numeric FEATURES in
\* their order, followed by exactly one binary column for every value that
\* indicator_code, continent, country_iso3 and sex take among the training
\* rows with a defined target (no level dropped, no column for any other
\* value); in the training matrix an undefined numeric entry is 0.0, a
\* defined one is kept, and a binary entry is 1 exactly for the row's value.
C16_SchemaOfTraining ==
    pc \in {"trained", "evaluated", "evaluate_raised", "predicted", "predict_raised"} =>
        LET cols == who_model_columns
            names == <<"year", "value_roll3", "value_z_global", "value_z_year",
                       "value_pct_change", "ci_width", "quality_score">>
            fields == {"indicator_code", "continent", "country_iso3", "sex"}
            X == _prep_xy(TargetRows)
        IN  /\ Len(cols) >= 7
            /\ \A j \in 1..7 : cols[j].k = "num" /\ cols[j].f = names[j]
            /\ \A j \in 8..Len(cols) :
                  /\ cols[j].k = "cat"
                  /\ cols[j].f \in fields
                  /\ \E r \in Rows(TargetRows) : r[cols[j].f] = cols[j].l
            /\ \A f \in fields : \A r \in Rows(TargetRows) :
                  Cardinality({j \in 8..Len(cols) :
                                  cols[j].f = f /\ cols[j].l = r[f]}) = 1
            /\ X.cols = cols
            /\ Len(X.rows) = Len(TargetRows)
            /\ \A i \in 1..Len(TargetRows) :
                  /\ \A j \in 1..7 :
                        IF UndefinedIn(TargetRows[i], names[j])
                        THEN X.rows[i][j] = ZeroOf(names[j])
                        ELSE X.rows[i][j] = TargetRows[i][names[j]]
                  /\ \A j \in 8..Len(cols) :
                        X.rows[i][j] =
                            IF TargetRows[i][cols[j].f] = cols[j].l THEN 1 ELSE 0

\* a training whose table has a row without a target with an indicator no
\* other row has, two values of sex among the rows with a target, and an
\* undefined and a defined ci_width
C16_Witness ==
    /\ pc = "trained"
    /\ \E r \in Rows(train_df) :
          /\ IsNaN(r.value)
          /\ \A q \in Rows(TargetRows) : q.indicator_code # r.indicator_code
    /\ \E q, r \in Rows(TargetRows) :
          /\ q.sex # r.sex
          /\ IsNaN(q.ci_width)
          /\ ~IsNaN(r.ci_width)

----------------------------------------------------------------------------
(* Properties of the feature run *)

\* the positions of the output rows of the indicator_code+country_iso3 group
\* of output row i
GroupOf(i) ==
    {j \in 1..Len(who_feature_data) :
        /\ who_feature_data[j].indicator_code = who_feature_data[i].indicator_code
        /\ who_feature_data[j].country_iso3 = who_feature_data[i].country_iso3}

\* the values the group of output row i has for the year before the row's
PrecedingYearValues(i) ==
    {who_feature_data[j].value :
        j \in {k \in GroupOf(i) :
                 /\ NotNa(who_feature_data[i].year)
                 /\ who_feature_data[k].year = who_feature_data[i].year - 1}}

\* C11: value_pct_change of a row is the percent change of its value against
\* the value its group has for the year before the row's year, and it is
\* undefined when the group has no record for that year or when that value
\* is zero; also in groups with several rows per year and with gaps. Stated
\* for the tables in which every record has a year.
C11_PctChangeAgainstPrecedingYear ==
    (pc = "featured" /\ \A r \in Rows(who_feature_data) : NotNa(r.year)) =>
        \A i \in 1..Len(who_feature_data) :
            LET r == who_feature_data[i]
            IN  IF PrecedingYearValues(i) = {}
                THEN r.value_pct_change = QNaN
                ELSE \E p \in PrecedingYearValues(i) :
                        IF p = 0 THEN r.value_pct_change = QNaN
                        ELSE /\ r.value_pct_change # QNaN
                             /\ r.value_pct_change[1] * p
                                  = (r.value - p) * 100 * r.value_pct_change[2]

\* the largest position of S
Last(S) == CHOOSE j \in S : \A k \in S : k <= j

\* the rows of the group of output row i that are before it
Before(i) == {j \in GroupOf(i) : j < i}

RowsOfGroup(t, r) ==
    LET InGroup(x) == /\ x.indicator_code = r.indicator_code
                      /\ x.country_iso3 = r.country_iso3
    IN  SelectSeq(t, InGroup)

\* the rows of t with the indicator_code of r
RowsOfIndicator(t, r) ==
    LET InIndicator(x) == x.indicator_code = r.indicator_code
    IN  SelectSeq(t, InIndicator)

\* C13: value_roll3 and value_pct_change of the rows of an
\* indicator_code+country_iso3 group are what engineer_features gives for
\* the rows of that group alone, and value_z_global and value_z_year of the
\* rows of an indicator_code are what it gives for the rows of that indicator
\* alone; so two batches that agree on the group (the indicator) give it the
\* same values whatever else they contain.
C13_GroupIsolation ==
    pc = "featured" =>
        \A r \in Rows(who_clean_data) :
            /\ LET alone == engineer_features(RowsOfGroup(who_clean_data, r))
                   mine == RowsOfGroup(who_feature_data, r)
               IN  /\ Len(mine) = Len(alone)
                   /\ \A k \in 1..Len(mine) :
                         /\ mine[k].year = alone[k].year
                         /\ mine[k].sex = alone[k].sex
                         /\ mine[k].value = alone[k].value
                         /\ mine[k].value_roll3 = alone[k].value_roll3
                         /\ mine[k].value_pct_change = alone[k].value_pct_change
            /\ LET alone == engineer_features(RowsOfIndicator(who_clean_data, r))
                   mine == RowsOfIndicator(who_feature_data, r)
               IN  /\ Len(mine) = Len(alone)
                   /\ \A k \in 1..Len(mine) :
                         /\ mine[k].country_iso3 = alone[k].country_iso3
                         /\ mine[k].year = alone[k].year
                         /\ mine[k].sex = alone[k].sex
                         /\ mine[k].value = alone[k].value
                         /\ mine[k].value_z_global = alone[k].value_z_global
                         /\ mine[k].value_z_year = alone[k].value_z_year

\* a table with two records of one group, a record of another country of
\* the same indicator and a record of another indicator
C13_Witness ==
    /\ pc = "featured"
    /\ \E i, j, k, l \in 1..Len(who_feature_data) :
          /\ i # j /\ j \in GroupOf(i)
          /\ who_feature_data[k].indicator_code = who_feature_data[i].indicator_code
          /\ who_feature_data[k].country_iso3 # who_feature_data[i].country_iso3
          /\ who_feature_data[l].indicator_code # who_feature_data[i].indicator_code

\* the sum of the numerators of the z-scores of column f over the rows at
\* the positions of G up to k
RECURSIVE SumOfNums(_, _, _)
SumOfNums(f, G, k) ==
    IF k = 0 THEN 0
    ELSE SumOfNums(f, G, k - 1)
         + (IF k \in G THEN who_feature_data[k][f].num ELSE 0)

\* n * n * (population variance) of the values of the rows at G: half the
\* sum of the squared differences of all pairs
SpreadOf(G) ==
    SumSeq([j \in 1..Len(who_feature_data) |->
              SumSeq([k \in 1..Len(who_feature_data) |->
                        IF j \in G /\ k \in G
                        THEN (who_feature_data[j].value - who_feature_data[k].value)
                               * (who_feature_data[j].value - who_feature_data[k].value)
                        ELSE 0])]) \div 2

\* the z-score in column f of output row i is that of its value in the
\* group at the positions G
IsZScoreIn(f, i, G) ==
    LET z == who_feature_data[i][f]
        v == who_feature_data[i].value
    IN  /\ z # ZNaN
        /\ z.n = Cardinality(G) /\ z.n >= 1
        /\ z.var = SpreadOf(G) /\ z.var >= 0
        /\ z.num = z.n * v - SumValues(who_feature_data, G, Len(who_feature_data))
        /\ SumOfNums(f, G, Len(who_feature_data)) = 0
        /\ \A j \in G :
              LET zj == who_feature_data[j][f]
                  vj == who_feature_data[j].value
              IN  /\ zj.n = z.n /\ zj.var = z.var
                  /\ vj > v => zj.num > z.num
                  /\ vj = v => zj.num = z.num
        /\ (\A j \in G : who_feature_data[j].value = v) => (z.num = 0 /\ z.var = 0)

IndicatorRows(i) ==
    {j \in 1..Len(who_feature_data) :
        who_feature_data[j].indicator_code = who_feature_data[i].indicator_code}

IndicatorYearRows(i) ==
    {j \in IndicatorRows(i) : who_feature_data[j].year = who_feature_data[i].year}

\* C14: value_z_global of a row is (value - mean) / (population standard
\* deviation + 1e-9) over the rows of its indicator_code: the numerators of
\* an indicator sum to zero over one positive denominator, a larger value
\* has a larger z-score, equal values have equal z-scores, and a group of
\* equal values (a single row included) has z-score 0, with no division by
\* zero. The same holds for value_z_year of every row, within the rows of
\* its indicator_code and year.
C14_ZScoreWithinGroup ==
    pc = "featured" =>
        \A i \in 1..Len(who_feature_data) :
            /\ IsZScoreIn("value_z_global", i, IndicatorRows(i))
            /\ IsZScoreIn("value_z_year", i, IndicatorYearRows(i))

\* C15: every record of engineer_features has the fields of a FeatureRecord,
\* which are those of an IndicatorRecord and continent, date, value_roll3,
\* value_z_global, value_z_year, value_pct_change, has_ci, ci_width and
\* quality_score, and the rows are sorted ascending by (indicator_code,
\* country_iso3, year).
C15_FeatureRecordFields ==
    pc = "featured" =>
        /\ \A r \in Rows(who_feature_data) :
              DOMAIN r = {"id", "indicator_code", "country_iso3", "region_code",
                          "region", "year", "sex", "value", "low", "high",
                          "date_reported", "continent", "date", "value_roll3",
                          "value_z_global", "value_z_year", "value_pct_change",
                          "has_ci", "ci_width", "quality_score"}
        /\ IsSorted(who_feature_data)

\* the values of the rows of the cleaned table with key k
ValuesAt(k) ==
    {i \in 1..Len(who_clean_data) : KeyOf(who_clean_data[i]) = k}

\* the fraction m is the median of the values at the positions G: a value
\* with fewer than half of the values on either side, or the mean of the
\* two values next to it with half of the values on either side
IsMedian(m, G) ==
    LET below == {i \in G : who_clean_data[i].value * m[2] < m[1]}
        above == {i \in G : who_clean_data[i].value * m[2] > m[1]}
    IN  \/ /\ \E i \in G : who_clean_data[i].value * m[2] = m[1]
           /\ 2 * Cardinality(below) < Cardinality(G)
           /\ 2 * Cardinality(above) < Cardinality(G)
        \/ /\ 2 * Cardinality(below) = Cardinality(G)
           /\ 2 * Cardinality(above) = Cardinality(G)
           /\ \E i \in below, j \in above :
                 /\ \A k \in below : who_clean_data[k].value <= who_clean_data[i].value
                 /\ \A k \in above : who_clean_data[k].value >= who_clean_data[j].value
                 /\ 2 * m[1]
                      = (who_clean_data[i].value + who_clean_data[j].value) * m[2]

\* C18: aggregate_who_data, as the pipeline runs it, returns exactly one row
\* for every (indicator_code, country_iso3, year) its input has and no other
\* row; value_median of the row is the median of the values of the input
\* rows with that key; the rows are sorted ascending by the key.
C18_OneMedianRowPerKey ==
    pc = "aggregated" =>
        /\ \A r \in Rows(who_clean_data) :
              Cardinality({n \in 1..Len(who_aggregated_data) :
                              KeyOf(who_aggregated_data[n]) = KeyOf(r)}) = 1
        /\ \A n \in 1..Len(who_aggregated_data) :
              /\ ValuesAt(KeyOf(who_aggregated_data[n])) # {}
              /\ IsMedian(who_aggregated_data[n].value_median,
                          ValuesAt(KeyOf(who_aggregated_data[n])))
        /\ IsSorted(who_aggregated_data)

----------------------------------------------------------------------------
(* Properties of the pipeline *)

\* the nodes that take the model and the schema
ModelReaders == {"evaluate_model_node", "predict_future"}

\* C17: in every run of the pipeline train_model_node has finished before
\* evaluate_model_node or the predict_future node starts; each of the two
\* loads who_model and who_model_columns as train_model_node saved them, and
\* train_model_node loaded train_df only; every dataset is among the outputs
\* of exactly one node and is saved by no other node; and no node that loads
\* test_df or who_future_features saves who_model_columns.
C17_SchemaFrozenAtTraining ==
    /\ \A n \in ModelReaders :
          status[n] # "pending" =>
              /\ status["train_model_node"] = "done"
              /\ \A d \in {"who_model", "who_model_columns"} :
                    {w \in NodeNames : <<d, w>> \in loaded[n]} = {"train_model_node"}
              /\ {dw[1] : dw \in loaded["train_model_node"]} = {"train_df"}
    /\ \A d \in Datasets :
          /\ Cardinality(WritersOf(d)) = 1
          /\ catalog[d] \subseteq WritersOf(d)
    /\ \A n \in NodeNames :
          {"test_df", "who_future_features"} \cap Nodes[n].inputs # {} =>
              /\ "who_model_columns" \notin Nodes[n].outputs
              /\ n \notin catalog["who_model_columns"]

\* a run in which both the evaluation and the forecast have started while
\* another node is still running
C17_Witness ==
    /\ \A n \in ModelReaders : status[n] \in {"running", "done"}
    /\ \E n \in NodeNames \ ModelReaders : status[n] = "running"
    /\ catalog["who_model_columns"] = {"train_model_node"}

====
